---- MODULE Spec2Model ----
(***************************************************************************)
(* Model of the email-agent classification pipeline:                       *)
(*   rules.py              apply_heuristic_rules (Rule Engine)             *)
(*   ml_spam_classifier.py extract_features, calculate_spam_score,         *)
(*                         classify (Score Model)                          *)
(*   utils.py              is_sent_by_user, classify_with_rules_and_llm,   *)
(*                         format_email_for_display                        *)
(*   pipeline.py           process_email, process_new_emails               *)
(*   app.py                generate_drafts, mark_spam_feedback,            *)
(*                         send_email_endpoint                             *)
(*                                                                         *)
(* A text is abstracted to the set of phrases of a small vocabulary that   *)
(* occur in it (plus the counts the code derives from its characters);     *)
(* "kw in text" becomes Contains(text.phrases, kw).  Scores are            *)
(* fixed-point integers, SCALE = 1.0.  A JSON payload is a record whose    *)
(* missing keys hold the value "absent" (or -1 for a number).  The rows of *)
(* one (email, kind) are a sequence in insertion order.  The ORM is taken  *)
(* to write a reassigned JSON attribute at the next commit.                *)
(***************************************************************************)
EXTENDS Integers, Sequences, FiniteSets, TLC

\* ------------------------------------------------------------------ bounds
MaxLimit == 2
MaxOptions == 2
MaxFeedback == 1
MaxMoney == 3
MaxEmails == 2
MaxRemote == 2

\* --------------------------------------------------------- fixed-point unit
SCALE == 10000

\* ------------------------------------------------- ml_spam_classifier weights
W_MONEY == 3500
W_SPAM_KW == 1500
W_PATTERN == 1200
W_CAPS == 2000
W_MARKETING == 2000
W_LINKS == 1500
W_SHORT_SUBJECT == 1200
SHORT_SUBJECT_LEN == 20
W_FEEDBACK == 3000
W_LLM_BOOST == 3000
T_SPAM == 7000
T_POTENTIAL == 3500
T_CONFIDENT_HAM == 1500

\* ------------------------------------------------------------- rules.py data
HIGH_PRIORITY_DOMAINS == {"stanford.edu"}

HIGH_PRIORITY_KEYWORDS == {"refund", "invoice", "urgent", "offer"}

SCHEDULING_KEYWORDS == {"meet", "calendar"}

\* regexes \btoday\b, \burgent\b, \bdue\b, named by the word they match
TIME_SENSITIVE_PATTERNS == {"today", "urgent", "due"}

SPAM_KEYWORDS == {"unsubscribe", "click here", "today only", "% off", "buy now"}

\* "no-reply@", "deals@", "news@": the local part that carries the pattern
PROMO_SENDER_PATTERNS == {"no-reply", "deals", "news"}

RETAIL_MARKETING_DOMAINS == {"amazon.com"}

SPAM_DOMAINS == {}

LONG_THREAD_ADDRESSES == 4

transactional_keywords == {"shipped", "refund", "receipt", "invoice"}

\* ------------------------------------------------ ml_spam_classifier.py data
money_request_keywords == {"donate", "donation", "fundraising"}

spam_keywords == {"unsubscribe", "subscribe", "click here", "offer"}

\* regexes \$\d+, !!!+, CLICK HERE, BUY NOW (all with IGNORECASE)
suspicious_patterns == {"$100", "!!!", "click here", "buy now"}

\* the sender domains that contain one of the marketing terms
marketing_domains == {"deals.example"}

link_markers == {"http://", "https://", "www."}

\* ---------------------------------------------------------- text abstraction
\* The lexicon entries that are substrings of phrase p.
SubstringsOf(p) ==
    IF p = "unsubscribe" THEN {"unsubscribe", "subscribe"}
    ELSE IF p = "today only" THEN {"today only", "today"}
    ELSE {p}

\* Python's  kw in text
Contains(text, kw) == \E p \in text : kw \in SubstringsOf(p)

CountHits(lexicon, text) == Cardinality({kw \in lexicon : Contains(text, kw)})

\* ------------------------------------------------------------------- payloads
Priorities == {"high", "normal", "low"}
Actions == {"archive", "needs_reply", "read_only"}
Buckets == {"spam", "potential_spam", "not_spam"}

\* is_sent is FALSE when the key is missing
Payload(priority, is_spam, spam_type, action, is_sent, reasons) ==
    [priority |-> priority, is_spam |-> is_spam, spam_type |-> spam_type,
     action |-> action, is_sent |-> is_sent, reasons |-> reasons,
     ml_spam_score |-> -1, ml_confidence |-> "absent"]

NoRule == <<>>

\* ----------------------------------------------------------------- rules.py
\* apply_heuristic_rules with the spam-keyword check moved before the
\* high-priority-domain check
apply_heuristic_rules_spam_first(subject, body, from_addr) ==
    LET inText(kw) == Contains(subject.phrases, kw) \/ Contains(body.phrases, kw)
        is_transactional == \E kw \in transactional_keywords : inText(kw)
    IN
    IF from_addr.local \in PROMO_SENDER_PATTERNS
    THEN <<Payload("low", TRUE, "promotional", "archive", FALSE, "promo_sender")>>
    ELSE IF from_addr.domain \in RETAIL_MARKETING_DOMAINS
    THEN IF is_transactional
         THEN <<Payload("low", FALSE, "not_spam", "read_only", FALSE, "transactional")>>
         ELSE <<Payload("low", TRUE, "promotional", "archive", FALSE, "retail_marketing")>>
    ELSE IF \E kw \in SPAM_KEYWORDS : inText(kw)
    THEN <<Payload("low", TRUE, "absent", "archive", FALSE, "spam_keyword")>>
    ELSE IF from_addr.domain \in HIGH_PRIORITY_DOMAINS
    THEN <<Payload("high", FALSE, "absent", "needs_reply", FALSE, "hp_domain")>>
    ELSE IF \E kw \in HIGH_PRIORITY_KEYWORDS : inText(kw)
    THEN <<Payload("high", FALSE, "absent", "needs_reply", FALSE, "hp_keyword")>>
    ELSE IF \E kw \in SCHEDULING_KEYWORDS : inText(kw)
    THEN <<Payload("high", FALSE, "absent", "needs_reply", FALSE, "scheduling")>>
    ELSE IF \E pat \in TIME_SENSITIVE_PATTERNS : inText(pat)
    THEN <<Payload("high", FALSE, "absent", "needs_reply", FALSE, "time_sensitive")>>
    ELSE IF from_addr.domain \in SPAM_DOMAINS
    THEN <<Payload("low", TRUE, "absent", "archive", FALSE, "spam_domain")>>
    ELSE IF (Contains(subject.phrases, "?") \/ Contains(body.phrases, "?"))
            /\ body.addresses > LONG_THREAD_ADDRESSES
    THEN <<Payload("normal", FALSE, "absent", "needs_reply", FALSE, "long_thread")>>
    ELSE NoRule

\* apply_heuristic_rules(subject, body, from_addr): <<result>> or <<>> (None)
apply_heuristic_rules(subject, body, from_addr) ==
    LET inText(kw) == Contains(subject.phrases, kw) \/ Contains(body.phrases, kw)
        is_transactional == \E kw \in transactional_keywords : inText(kw)
    IN
    IF from_addr.local \in PROMO_SENDER_PATTERNS
    THEN <<Payload("low", TRUE, "promotional", "archive", FALSE, "promo_sender")>>
    ELSE IF from_addr.domain \in RETAIL_MARKETING_DOMAINS
    THEN IF is_transactional
         THEN <<Payload("low", FALSE, "not_spam", "read_only", FALSE, "transactional")>>
         ELSE <<Payload("low", TRUE, "promotional", "archive", FALSE, "retail_marketing")>>
    ELSE IF from_addr.domain \in HIGH_PRIORITY_DOMAINS
    THEN <<Payload("high", FALSE, "absent", "needs_reply", FALSE, "hp_domain")>>
    ELSE IF \E kw \in HIGH_PRIORITY_KEYWORDS : inText(kw)
    THEN <<Payload("high", FALSE, "absent", "needs_reply", FALSE, "hp_keyword")>>
    ELSE IF \E kw \in SCHEDULING_KEYWORDS : inText(kw)
    THEN <<Payload("high", FALSE, "absent", "needs_reply", FALSE, "scheduling")>>
    ELSE IF \E pat \in TIME_SENSITIVE_PATTERNS : inText(pat)
    THEN <<Payload("high", FALSE, "absent", "needs_reply", FALSE, "time_sensitive")>>
    ELSE IF \E kw \in SPAM_KEYWORDS : inText(kw)
    THEN <<Payload("low", TRUE, "absent", "archive", FALSE, "spam_keyword")>>
    ELSE IF from_addr.domain \in SPAM_DOMAINS
    THEN <<Payload("low", TRUE, "absent", "archive", FALSE, "spam_domain")>>
    ELSE IF (Contains(subject.phrases, "?") \/ Contains(body.phrases, "?"))
            /\ body.addresses > LONG_THREAD_ADDRESSES
    THEN <<Payload("normal", FALSE, "absent", "needs_reply", FALSE, "long_thread")>>
    ELSE NoRule

\* ------------------------------------------------- ml_spam_classifier.py
\* MLSpamClassifier.extract_features
extract_features(email) ==
    LET text == email.subject.phrases \cup email.body.phrases
        spam_keyword_count == CountHits(spam_keywords, text)
    IN [from_domain |-> email.from_addr.domain,
        subject_length |-> email.subject.len,
        has_links |-> \E mk \in link_markers : Contains(email.body.phrases, mk),
        spam_keyword_count |-> spam_keyword_count,
        money_request_count |-> CountHits(money_request_keywords, text),
        suspicious_pattern_count |-> CountHits(suspicious_patterns, text),
        caps_ratio |-> IF email.subject.len > 0
                       THEN (email.subject.upper * SCALE) \div email.subject.len
                       ELSE 0,
        is_marketing_domain |-> email.from_addr.domain \in marketing_domains]

Clamp(x) == IF x < 0 THEN 0 ELSE IF x > SCALE THEN SCALE ELSE x

Min(a, b) == IF a < b THEN a ELSE b

\* the +-0.30 feedback term; fb = [spam |-> n, ham |-> n] are the counts of the
\* user's SpamFeedback rows for the domain
FeedbackTerm(domain, fb) ==
    IF domain = "" THEN 0
    ELSE IF fb.spam + fb.ham = 0 THEN 0
    ELSE IF fb.spam > fb.ham THEN W_FEEDBACK
    ELSE IF fb.ham > fb.spam THEN 0 - W_FEEDBACK
    ELSE 0

\* the sum with the money term added once, whatever the count
UnclampedScore_money_once(features, fb) ==
      (IF features.money_request_count > 0 THEN W_MONEY ELSE 0)
    + features.spam_keyword_count * W_SPAM_KW
    + features.suspicious_pattern_count * W_PATTERN
    + (features.caps_ratio * W_CAPS) \div SCALE
    + (IF features.is_marketing_domain THEN W_MARKETING ELSE 0)
    + (IF features.has_links /\ features.spam_keyword_count > 0 THEN W_LINKS ELSE 0)
    + (IF features.subject_length < SHORT_SUBJECT_LEN /\ features.spam_keyword_count > 0
       THEN W_SHORT_SUBJECT ELSE 0)
    + FeedbackTerm(features.from_domain, fb)

\* the sum of calculate_spam_score before the final max/min
UnclampedScore(features, fb) ==
      (IF features.money_request_count > 0
       THEN features.money_request_count * W_MONEY ELSE 0)
    + features.spam_keyword_count * W_SPAM_KW
    + features.suspicious_pattern_count * W_PATTERN
    + (features.caps_ratio * W_CAPS) \div SCALE
    + (IF features.is_marketing_domain THEN W_MARKETING ELSE 0)
    + (IF features.has_links /\ features.spam_keyword_count > 0 THEN W_LINKS ELSE 0)
    + (IF features.subject_length < SHORT_SUBJECT_LEN /\ features.spam_keyword_count > 0
       THEN W_SHORT_SUBJECT ELSE 0)
    + FeedbackTerm(features.from_domain, fb)

\* MLSpamClassifier.calculate_spam_score
calculate_spam_score(features, fb) == Clamp(UnclampedScore(features, fb))

\* the buckets with every threshold comparison strict
BucketOf_strict(ml_score) ==
    IF ml_score > T_SPAM THEN [classification |-> "spam", confidence |-> "high"]
    ELSE IF ml_score > T_POTENTIAL
    THEN [classification |-> "potential_spam", confidence |-> "medium"]
    ELSE [classification |-> "not_spam",
          confidence |-> IF ml_score < T_CONFIDENT_HAM THEN "high" ELSE "low"]

\* the bucket and confidence of MLSpamClassifier.classify for a final score
BucketOf(ml_score) ==
    IF ml_score >= T_SPAM THEN [classification |-> "spam", confidence |-> "high"]
    ELSE IF ml_score >= T_POTENTIAL
    THEN [classification |-> "potential_spam", confidence |-> "medium"]
    ELSE [classification |-> "not_spam",
          confidence |-> IF ml_score < T_CONFIDENT_HAM THEN "high" ELSE "low"]

\* lines 164-167: the score after the boost for a stage-1 spam verdict
final_score(base, llm_is_spam) ==
    IF llm_is_spam THEN Min(SCALE, base + W_LLM_BOOST) ELSE base

\* MLSpamClassifier.classify; llm_classification is the stage-1 payload
ml_classify(email, fb, llm_classification) ==
    LET features == extract_features(email)
        base == calculate_spam_score(features, fb)
        llm_is_spam == llm_classification.is_spam
        ml_score == final_score(base, llm_is_spam)
        b == BucketOf(ml_score)
    IN [classification |-> b.classification, ml_score |-> ml_score,
        confidence |-> b.confidence, llm_is_spam |-> llm_is_spam]

\* ------------------------------------------------------------------ utils.py
NoUser == 0

OwnerId == 1

\* the users table: id -> the user's address
UserEmail(user_id) == [local |-> "me", domain |-> "example.com"]

\* is_sent_by_user(email, user)
is_sent_by_user(email, user_id) ==
    IF "SENT" \in email.labels THEN TRUE
    ELSE email.from_addr = UserEmail(user_id)

SentClassification == Payload("low", FALSE, "not_spam", "archive", TRUE, "sent_by_user")

\* a classifier that answers with a default payload when the oracle raises
classify_with_rules_and_llm_default(email, oc) ==
    LET rule_result == apply_heuristic_rules(email.subject, email.body, email.from_addr)
    IN IF email.user_id # NoUser /\ is_sent_by_user(email, email.user_id)
       THEN [classification |-> <<SentClassification>>, rules |-> 0, classify |-> 0]
       ELSE IF rule_result # NoRule
       THEN [classification |-> rule_result, rules |-> 1, classify |-> 0]
       ELSE IF oc = <<>>
       THEN [classification |->
                 <<Payload("normal", FALSE, "absent", "read_only", FALSE, "default")>>,
             rules |-> 1, classify |-> 1]
       ELSE [classification |-> oc, rules |-> 1, classify |-> 1]

\* classify_with_rules_and_llm(db, email, llm_classify_func, user).  oc is the
\* oracle's answer, <<payload>>, or <<>> when the call raises.  The result
\* carries the classification (<<>> when the oracle raised) and which of the
\* Rule Engine and the oracle were called.
classify_with_rules_and_llm(email, oc) ==
    LET rule_result == apply_heuristic_rules(email.subject, email.body, email.from_addr)
    IN IF email.user_id # NoUser /\ is_sent_by_user(email, email.user_id)
       THEN [classification |-> <<SentClassification>>, rules |-> 0, classify |-> 0]
       ELSE IF rule_result # NoRule
       THEN [classification |-> rule_result, rules |-> 1, classify |-> 0]
       ELSE [classification |-> oc, rules |-> 1, classify |-> 1]

\* format_email_for_display without the two replied_at checks
format_email_for_display_no_replied(email, classification) ==
    [needs_reply |-> Len(classification) > 0 /\ classification[1].action = "needs_reply",
     replied |-> email.replied,
     classification |-> classification]

\* format_email_for_display(email, classification, summary).needs_reply;
\* classification is <<payload>> or <<>> (None)
format_email_for_display(email, classification) ==
    LET needs_reply == IF Len(classification) > 0 /\ classification[1].action = "needs_reply"
                       THEN ~email.replied
                       ELSE FALSE
    IN [needs_reply |-> IF needs_reply /\ email.replied THEN FALSE ELSE needs_reply,
        replied |-> email.replied,
        classification |-> classification]

\* --------------------------------------------------------------- pipeline.py
NoRows == [classification |-> <<>>, ml_spam_classification |-> <<>>, summary |-> <<>>]

NoCalls == [rules |-> 0, classify |-> 0, ml |-> 0, summarize |-> 0, draft |-> 0]

\* the merge with a potential_spam branch that leaves is_spam as it was
MergeMl_potential_keeps(classification, ml_result) ==
    LET c1 == IF ml_result.classification = "spam"
              THEN [classification EXCEPT !.is_spam = TRUE, !.spam_type = "spam"]
              ELSE IF ml_result.classification = "potential_spam"
              THEN [classification EXCEPT !.spam_type = "potential_spam"]
              ELSE [classification EXCEPT !.spam_type = "not_spam"]
    IN [c1 EXCEPT !.ml_spam_score = ml_result.ml_score,
                  !.ml_confidence = ml_result.confidence]

\* lines 93-105: the Score Model's verdict written into the classification
MergeMl(classification, ml_result) ==
    LET c1 == IF ml_result.classification = "spam"
              THEN [classification EXCEPT !.is_spam = TRUE, !.spam_type = "spam"]
              ELSE IF ml_result.classification = "potential_spam"
              THEN [classification EXCEPT !.is_spam = FALSE, !.spam_type = "potential_spam"]
              ELSE [classification EXCEPT !.spam_type = "not_spam"]
    IN [c1 EXCEPT !.ml_spam_score = ml_result.ml_score,
                  !.ml_confidence = ml_result.confidence]

\* the gate asking for needs_reply and high priority together
should_summarize_both(classification, classify_only, has_summary) ==
    /\ ~classify_only
    /\ ~has_summary
    /\ (classification.action = "needs_reply" /\ classification.priority = "high")

\* lines 137-144: the summarization gate
should_summarize(classification, classify_only, has_summary) ==
    /\ ~classify_only
    /\ ~has_summary
    /\ (classification.action = "needs_reply" \/ classification.priority = "high")

\* a lookup that never finds the cached row
existing_classification_uncached(rows) == <<>>

\* lines 24-29: the cached classification row, <<row>> or <<>>
existing_classification(rows) ==
    IF rows.classification = <<>> THEN <<>> ELSE <<rows.classification[1]>>

\* no early return for spam
skip_spam_never(classification) == FALSE

\* lines 131-133: spam ends the call before summarization
skip_spam(classification) == classification.is_spam

NoAnswer == [ok |-> FALSE, options |-> <<>>]

\* step 3 as it reads with the comment marks removed
draft_step_enabled(classification, od) ==
    IF classification.action = "needs_reply"
    THEN [called |-> 1,
          drafts |-> [i \in 1 .. Len(od.options) |->
                         [draft_text |-> od.options[i], approved |-> FALSE,
                          sent |-> FALSE, sends |-> 0]]]
    ELSE [called |-> 0, drafts |-> <<>>]

\* lines 168-190: step 3, draft replies, is disabled (commented out): no
\* draft call, no Draft row.  od is the oracle's draft answer.
draft_step(classification, od) == [called |-> 0, drafts |-> <<>>]

\* what a process_email call did: the rows after the call, the return value,
\* the calls made, the stage-1 classification (<<>> if cached), the bucket
\* ("none" if the Score Model did not run), the classification the call ended
\* with and the Draft rows it adds
Ret(r, ok, calls, stage1, bucket, final, new_drafts) ==
    [rows |-> r, ok |-> ok, calls |-> calls, stage1 |-> stage1,
     bucket |-> bucket, final |-> final, drafts |-> new_drafts]

\* lines 130-192: the spam skip, step 2 (summarize) and step 3 (draft) on the
\* merged classification c2 and the rows rows2 committed so far
process_email_summarize(rows2, c2, calls2, stage1, bucket, classify_only, os, od) ==
    LET summarizing == should_summarize(c2, classify_only, Len(rows2.summary) > 0)
        calls3 == [calls2 EXCEPT !.summarize = IF summarizing THEN 1 ELSE 0]
        d == draft_step(c2, od)
    IN
    IF skip_spam(c2)
    THEN Ret(rows2, TRUE, calls2, stage1, bucket, <<c2>>, <<>>)
    ELSE IF summarizing /\ os = <<>>
    THEN Ret(rows2, FALSE, calls3, stage1, bucket, <<c2>>, <<>>)   \* except: rollback
    ELSE IF summarizing
    THEN IF d.called = 1 /\ ~od.ok
         THEN Ret([rows2 EXCEPT !.summary = Append(@, os[1])],     \* commit, line 162
                  FALSE, [calls3 EXCEPT !.draft = 1], stage1, bucket, <<c2>>, <<>>)
         ELSE Ret([rows2 EXCEPT !.summary = Append(@, os[1])],
                  TRUE, [calls3 EXCEPT !.draft = d.called], stage1, bucket, <<c2>>, d.drafts)
    ELSE IF d.called = 1 /\ ~od.ok
    THEN Ret(rows2, FALSE, [calls3 EXCEPT !.draft = 1], stage1, bucket, <<c2>>, <<>>)
    ELSE Ret(rows2, TRUE, [calls3 EXCEPT !.draft = d.called], stage1, bucket, <<c2>>, d.drafts)

\* lines 79-128: step 1.5, the Score Model and the merge, on the stage-1
\* classification c1 (cached when hasC) and the rows rows1 committed so far
process_email_ml(rows1, email, fb, c1, hasC, calls1, classify_only, os, od) ==
    IF Len(rows1.ml_spam_classification) > 0
    THEN process_email_summarize(
             rows1,
             IF c1.spam_type = "absent"
             THEN [c1 EXCEPT !.spam_type = rows1.ml_spam_classification[1].classification]
             ELSE c1,
             calls1, IF hasC THEN <<>> ELSE <<c1>>, "none", classify_only, os, od)
    ELSE LET ml_result == ml_classify(email, fb, c1)
             idx == IF hasC THEN 1 ELSE Len(rows1.classification)
         IN process_email_summarize(
                [rows1 EXCEPT !.ml_spam_classification = Append(@, ml_result),
                              !.classification[idx] = MergeMl(c1, ml_result)],  \* commit, line 123
                MergeMl(c1, ml_result),
                [calls1 EXCEPT !.ml = 1], IF hasC THEN <<>> ELSE <<c1>>,
                ml_result.classification, classify_only, os, od)

\* lines 49-77: step 1 on the result s1 of the cache or of
\* classify_with_rules_and_llm
process_email_classify(rows, email, fb, s1, hasC, classify_only, os, od) ==
    IF s1.classification = <<>>
    THEN Ret(rows, FALSE, [NoCalls EXCEPT !.rules = s1.rules, !.classify = s1.classify],
             <<>>, "none", <<>>, <<>>)                              \* except: rollback
    ELSE process_email_ml(
             IF hasC THEN rows
             ELSE [rows EXCEPT !.classification = Append(@, s1.classification[1])],  \* commit, line 77
             email, fb, s1.classification[1], hasC,
             [NoCalls EXCEPT !.rules = s1.rules, !.classify = s1.classify],
             classify_only, os, od)

\* process_email(db, email, classify_only) on the rows of this email.
\*   fb  the feedback counts of (email.user_id, sender domain)
\*   oc  the oracle's classify answer, <<>> if it raises
\*   os  the oracle's summarize answer, <<>> if it raises
\*   od  the oracle's draft answer
process_email(rows, email, fb, classify_only, oc, os, od) ==
    LET cached == existing_classification(rows)
        hasC == Len(cached) > 0
    IN
    IF hasC /\ Len(rows.summary) > 0 /\ Len(rows.ml_spam_classification) > 0
    THEN Ret(rows, TRUE, NoCalls, <<>>, "none", <<>>, <<>>)         \* lines 45-47
    ELSE process_email_classify(
             rows, email, fb,
             IF hasC
             THEN [classification |-> cached, rules |-> 0, classify |-> 0]
             ELSE classify_with_rules_and_llm(email, oc),
             hasC, classify_only, os, od)

\* ------------------------------------------------------------ the messages
Addr(local, domain) == [local |-> local, domain |-> domain]

Subject(phrases, len, upper) == [phrases |-> phrases, len |-> len, upper |-> upper]

Body(phrases, addresses) == [phrases |-> phrases, addresses |-> addresses]

Msg(user_id, from_addr, labels, subject, body) ==
    [user_id |-> user_id, from_addr |-> from_addr, labels |-> labels,
     subject |-> subject, body |-> body]

\* Representative stored messages (Email rows as save_email_to_db writes them).
Catalog ==
    { \* a colleague at an allowlisted domain asking for a meeting
      Msg(OwnerId, Addr("alice", "stanford.edu"), {"INBOX"},
          Subject({"meet", "?"}, 27, 2), Body({"hello"}, 0)),
      \* a promotion: deals@retailer.com, "50% off today only!", unsubscribe
      Msg(OwnerId, Addr("deals", "retailer.com"), {"INBOX"},
          Subject({"% off", "today only"}, 19, 0), Body({"unsubscribe"}, 0)),
      \* a message the owner sent, asking for donations
      Msg(OwnerId, Addr("me", "example.com"), {"SENT"},
          Subject({"hello"}, 24, 1), Body({"donate", "fundraising"}, 0)),
      \* a plain message no rule matches (the test suite's sample: no owner)
      Msg(NoUser, Addr("test", "example.com"), {},
          Subject({"hello"}, 18, 3), Body({"hello"}, 0)),
      \* no rule matches; half of the subject is upper case
      Msg(OwnerId, Addr("bob", "example.com"), {"INBOX"},
          Subject({"hello"}, 20, 10), Body({"hello"}, 0)),
      \* a spam keyword from an ordinary sender
      Msg(OwnerId, Addr("carol", "example.com"), {"INBOX"},
          Subject({"hello"}, 30, 1), Body({"unsubscribe"}, 0)),
      \* a fundraiser no rule matches
      Msg(OwnerId, Addr("dave", "example.com"), {"INBOX"},
          Subject({"hello"}, 30, 1), Body({"donate", "fundraising"}, 0)),
      \* a shipping notice from a retailer
      Msg(OwnerId, Addr("orders", "amazon.com"), {"INBOX"},
          Subject({"shipped"}, 25, 1), Body({"hello"}, 0)) }

Domains == {m.from_addr.domain : m \in Catalog}

\* the oracle's classify answers: payloads of the classifier schema.  The
\* pipeline only tests priority = "high" and action = "needs_reply", so one
\* other value of each stands for the rest.
OraclePriorities == {"high", "normal"}

OracleActions == {"needs_reply", "read_only"}

OracleClassifications ==
    {Payload(p, sp, "absent", a, FALSE, "oracle") :
        p \in OraclePriorities, sp \in BOOLEAN, a \in OracleActions}

ClassifyOutcomes == {<<>>} \cup {<<c>> : c \in OracleClassifications}

SummarizeOutcomes == {<<>>, <<"summary">>}

\* the oracle's draft answers: a failure, or the bodies of the reply options
DraftOutcomes ==
    {NoAnswer}
    \cup {[ok |-> TRUE, options |-> [i \in 1 .. n |-> i]] : n \in 0 .. MaxOptions}

\* ------------------------------------------------------------------- state
VARIABLES
    emails,     \* emails table: id -> message, received_at, replied (replied_at set)
    inf,        \* inferences table: id -> kind -> the rows' payloads
    drafts,     \* drafts table: id -> the Draft rows of the email (approved_at set,
                \* sent_at set, how many times send_reply sent the draft)
    feedback,   \* spam_feedback table of the owner: domain -> counts
    sched,      \* the running process_new_emails call, if any
    last,       \* what the last operation did (for the properties)
    fn,         \* a pure function's input and output (SpecFn)
    conc,       \* the concurrent process_new_emails runs (SpecConc)
    sync        \* the polls: cancel flags, Gmail mailboxes, workers (SpecSync)

vars == <<emails, inf, drafts, feedback, sched, last, fn, conc, sync>>

EmailIds == DOMAIN emails

\* max_emails = None, target_non_spam = None
NoLimit == -1

\* The running process_new_emails call: its arguments, the emails of its query
\* still to visit, its two counters, and for the properties the emails that
\* lacked a classification or a summary when it started, the emails it has
\* passed to process_email, in order, whether a limit stopped the loop, and
\* whether one of the emails passed had no classification row.
SchedIdle ==
    [active |-> FALSE, queue |-> <<>>, max_emails |-> NoLimit, target_non_spam |-> NoLimit,
     classify_only |-> FALSE, processed_count |-> 0, non_spam_count |-> 0,
     backlog |-> {}, passed |-> <<>>, stopped |-> FALSE, fresh |-> FALSE]

\* the users of the polls: the owner and another user
OtherId == 2

Users == {OwnerId, OtherId}

\* A user's background_fetch thread: where it is, the messages of the list
\* it still has to get, the emails its process_new_emails still has to visit,
\* and for the properties whether cancel_sync was called while it ran and
\* how many process_email calls it has started under a set flag.
BgIdle ==
    [pc |-> "none", list |-> <<>>, queue |-> <<>>, cancel_requested |-> FALSE,
     after_cancel |-> 0]

\* The polls: background_sync_cancelled, the number of messages in each
\* user's Gmail mailbox, the manual_poll request being served (its user,
\* whether it is a first sync, its new_email_count) and the threads.
NoPoll == [user |-> NoUser, pc |-> "none", first |-> FALSE, new_email_count |-> 0]

SyncIdle ==
    [cancelled |-> [u \in Users |-> FALSE], remote |-> [u \in Users |-> 0],
     fg |-> NoPoll, bg |-> [u \in Users |-> BgIdle]]

\* the requests of the sequential specification are served one at a time
Idle == ~sched.active

\* What the last operation did: the operation, its email, its result, the
\* calls it made, and for process_email the stage-1 spam verdict ("none" if
\* stage 1 was served from the cache), the Score Model's bucket ("none" if
\* served from the cache), the spam verdict the call ended with, whether the
\* inference rows or the Draft rows of the email changed, whether the
\* operation before it was the same successful process_email call, and
\* whether the oracle's classify call was made and raised.
NoLast ==
    [op |-> "none", email |-> 0, classify_only |-> FALSE, ok |-> FALSE,
     calls |-> NoCalls, stage1_spam |-> "none", bucket |-> "none",
     final_spam |-> "none", rows_changed |-> FALSE, drafts_changed |-> FALSE,
     new_summary |-> FALSE, repeat |-> FALSE, returned |-> 0,
     classify_failed |-> FALSE]

FnIdle == [f |-> "none"]

\* the threads that can run process_new_emails at the same time: a request's
\* own thread and the thread manual_poll starts
Workers == {"foreground", "background"}

\* A run that has not started: its position, the emails of its query still to
\* visit, the email process_email is working on, what its three lookups
\* found, the classification row it updates and its local classification.
WorkerIdle ==
    [pc |-> "idle", queue |-> <<>>, email |-> 0, has_c |-> FALSE, has_s |-> FALSE,
     has_m |-> FALSE, row |-> 0, c |-> <<>>]

\* The runs, and for the properties whether two process_email calls on one
\* email overlapped and how many oracle calls were made and succeeded.
ConcIdle ==
    [w |-> [x \in Workers |-> WorkerIdle], overlap |-> FALSE,
     classify_calls |-> 0, classify_ok |-> 0, summarize_calls |-> 0, summarize_ok |-> 0]

\* the mailboxes of n stored messages drawn from a catalog
Mailboxes(n, catalog) ==
    {[i \in 1 .. n |-> [msg |-> c[i], received_at |-> i, replied |-> FALSE]] :
        c \in [1 .. n -> catalog]}

Init ==
    /\ emails \in Mailboxes(1, Catalog)
    /\ inf = [i \in EmailIds |-> NoRows]
    /\ drafts = [i \in EmailIds |-> <<>>]
    /\ feedback = [d \in Domains |-> [spam |-> 0, ham |-> 0]]
    /\ sched = SchedIdle
    /\ last = NoLast
    /\ fn = FnIdle
    /\ conc = ConcIdle
    /\ sync = SyncIdle

\* ----------------------------------------------------------------- actions
Flag(b) == IF b THEN "true" ELSE "false"

SpamFlag(c) == IF c = <<>> THEN "none" ELSE Flag(c[1].is_spam)

\* the record of a process_email call on email m with result r
LastOfProcess(m, classify_only, r, oc) ==
    [op |-> "process_email", email |-> m, classify_only |-> classify_only,
     ok |-> r.ok, calls |-> r.calls, stage1_spam |-> SpamFlag(r.stage1),
     bucket |-> r.bucket, final_spam |-> SpamFlag(r.final),
     rows_changed |-> r.rows # inf[m], drafts_changed |-> r.drafts # <<>>,
     new_summary |-> Len(r.rows.summary) > Len(inf[m].summary), returned |-> 0,
     classify_failed |-> (r.calls.classify = 1 /\ oc = <<>>),
     repeat |-> /\ last.op = "process_email" /\ last.email = m /\ last.ok
                /\ last.classify_only = classify_only]

\* An oracle answer is drawn only for a call that is made.
Answered(r, oc, os, od) ==
    /\ r.calls.classify = 0 => oc = <<>>
    /\ r.calls.summarize = 0 => os = <<>>
    /\ r.calls.draft = 0 => od = NoAnswer

\* process_email(db, email, classify_only) called directly (reclassify_email)
ProcessEmail(m, classify_only, oc, os, od) ==
    /\ Idle
    /\ \E r \in {process_email(inf[m], emails[m].msg,
                                feedback[emails[m].msg.from_addr.domain],
                                classify_only, oc, os, od)} :
          /\ Answered(r, oc, os, od)
          /\ inf' = [inf EXCEPT ![m] = r.rows]
          /\ drafts' = [drafts EXCEPT ![m] = @ \o r.drafts]
          /\ last' = LastOfProcess(m, classify_only, r, oc)
    /\ UNCHANGED <<emails, feedback, sched, fn, conc, sync>>

\* the record of an operation other than process_email
LastOf(op, m, ok, calls, rows_changed, drafts_changed) ==
    [NoLast EXCEPT !.op = op, !.email = m, !.ok = ok, !.calls = calls,
                   !.rows_changed = rows_changed, !.drafts_changed = drafts_changed]

\* a check that never finds a Draft row
existing_drafts_unchecked(m) == <<>>

\* app.py line 451: the Draft rows of the email
existing_drafts(m) == drafts[m]

\* app.py generate_drafts(email_id) by the owner; od is the oracle's answer
GenerateDrafts(m, od) ==
    LET new == [i \in 1 .. Len(od.options) |->
                   [draft_text |-> od.options[i], approved |-> FALSE,
                          sent |-> FALSE, sends |-> 0]]
    IN /\ Idle
       /\ IF emails[m].msg.user_id # OwnerId
          THEN /\ od = NoAnswer                                          \* 404
               /\ last' = LastOf("generate_drafts", m, FALSE, NoCalls, FALSE, FALSE)
               /\ UNCHANGED drafts
          ELSE IF existing_drafts(m) # <<>>
          THEN /\ od = NoAnswer                                          \* "exists"
               /\ last' = LastOf("generate_drafts", m, TRUE, NoCalls, FALSE, FALSE)
               /\ UNCHANGED drafts
          ELSE /\ drafts' = [drafts EXCEPT ![m] = IF od.ok THEN @ \o new ELSE @]
               /\ last' = LastOf("generate_drafts", m, od.ok, [NoCalls EXCEPT !.draft = 1],
                                  FALSE, od.ok /\ new # <<>>)
       /\ UNCHANGED <<emails, inf, feedback, sched, fn, conc, sync>>

RECURSIVE SumFeedback(_)
\* the number of SpamFeedback rows of the domains D
SumFeedback(D) ==
    IF D = {} THEN 0
    ELSE LET d == CHOOSE x \in D : TRUE
         IN feedback[d].spam + feedback[d].ham + SumFeedback(D \ {d})

FeedbackTotal == SumFeedback(Domains)

\* app.py mark_spam_feedback(email_id, {is_spam}) by the owner
MarkSpamFeedback(m, is_spam) ==
    LET e == emails[m].msg
        d == extract_features(e).from_domain
        rows == inf[m].classification
        updated == [rows EXCEPT ![1] = [@ EXCEPT !.is_spam = is_spam,
                        !.spam_type = IF is_spam THEN "spam" ELSE "not_spam"]]
    IN /\ Idle
       /\ FeedbackTotal < MaxFeedback
       /\ IF e.user_id # OwnerId
          THEN /\ last' = LastOf("mark_spam_feedback", m, FALSE, NoCalls, FALSE, FALSE)   \* 404
               /\ UNCHANGED <<emails, inf, drafts, feedback, sched, fn, conc, sync>>
          ELSE /\ feedback' = [feedback EXCEPT ![d] =
                        IF is_spam THEN [@ EXCEPT !.spam = @ + 1]
                        ELSE [@ EXCEPT !.ham = @ + 1]]
               /\ inf' = IF rows # <<>> THEN [inf EXCEPT ![m].classification = updated]
                         ELSE inf
               /\ last' = LastOf("mark_spam_feedback", m, TRUE, NoCalls, inf' # inf, FALSE)
               /\ UNCHANGED <<emails, drafts, sched, fn, conc, sync>>

\* ---------------------------------------- pipeline.py process_new_emails
RECURSIVE SortDesc(_)
\* order_by(Email.received_at.desc())
SortDesc(S) ==
    IF S = {} THEN <<>>
    ELSE LET m == CHOOSE x \in S : \A y \in S : emails[y].received_at <= emails[x].received_at
         IN <<m>> \o SortDesc(S \ {m})

has_classification(m) == Len(inf[m].classification) > 0

has_summary(m) == Len(inf[m].summary) > 0

\* the unprocessed emails in ascending order of received_at
unprocessed_emails_oldest_first ==
    LET q == SortDesc({m \in EmailIds : ~has_classification(m) \/ ~has_summary(m)})
    IN [i \in 1 .. Len(q) |-> q[Len(q) + 1 - i]]

\* the selection without the emails that lack only a summary
unprocessed_emails_unclassified == SortDesc({m \in EmailIds : ~has_classification(m)})

\* lines 211-226: the emails missing a classification or a summary, newest first
unprocessed_emails == SortDesc({m \in EmailIds : ~has_classification(m) \/ ~has_summary(m)})

\* the limits a caller may pass: None or a non-negative integer
Limits == {NoLimit} \cup (0 .. MaxLimit)

\* "if max_emails and ...": None and 0 are both falsy
limit_set(limit) == limit # NoLimit /\ limit # 0

\* a counter that also counts the failed calls
count_processed_always(ok, n) == n + 1

\* lines 263-264: processed_count += 1 only if process_email returned True
count_processed(ok, n) == IF ok THEN n + 1 ELSE n

\* lines 199-236: a call of process_new_emails that has run its query
NewRun(max_emails, target_non_spam, classify_only) ==
    [active |-> TRUE, queue |-> unprocessed_emails, max_emails |-> max_emails,
     target_non_spam |-> target_non_spam, classify_only |-> classify_only,
     processed_count |-> 0, non_spam_count |-> 0,
     backlog |-> {m \in EmailIds : ~has_classification(m) \/ ~has_summary(m)},
     passed |-> <<>>, stopped |-> FALSE, fresh |-> FALSE]

\* lines 199-236: the call starts and runs its query
SchedStart(max_emails, target_non_spam, classify_only) ==
    /\ ~sched.active
    /\ sched' = NewRun(max_emails, target_non_spam, classify_only)
    /\ last' = LastOf("sched_start", 0, TRUE, NoCalls, FALSE, FALSE)
    /\ UNCHANGED <<emails, inf, drafts, feedback, fn, conc, sync>>

\* lines 238-274: one iteration of the loop
SchedStep(oc, os, od) ==
    /\ sched.active
    /\ sched.queue # <<>>
    /\ \E m \in {Head(sched.queue)} :
        IF \/ limit_set(sched.max_emails) /\ sched.processed_count >= sched.max_emails
           \/ limit_set(sched.target_non_spam)
                 /\ sched.non_spam_count >= sched.target_non_spam
        THEN /\ oc = <<>> /\ os = <<>> /\ od = NoAnswer                  \* break
             /\ sched' = [sched EXCEPT !.queue = <<>>, !.stopped = TRUE]
             /\ last' = LastOf("sched_stop", m, TRUE, NoCalls, FALSE, FALSE)
             /\ UNCHANGED <<inf, drafts>>
        ELSE IF has_classification(m) /\ has_summary(m)
        THEN /\ oc = <<>> /\ os = <<>> /\ od = NoAnswer                  \* continue
             /\ sched' = [sched EXCEPT !.queue = Tail(@)]
             /\ last' = LastOf("sched_skip", m, TRUE, NoCalls, FALSE, FALSE)
             /\ UNCHANGED <<inf, drafts>>
        ELSE \E r \in {process_email(inf[m], emails[m].msg,
                                     feedback[emails[m].msg.from_addr.domain],
                                     sched.classify_only, oc, os, od)} :
             /\ Answered(r, oc, os, od)
             /\ inf' = [inf EXCEPT ![m] = r.rows]
             /\ drafts' = [drafts EXCEPT ![m] = @ \o r.drafts]
             /\ sched' = [sched EXCEPT
                   !.queue = Tail(@),
                   !.passed = Append(@, m),
                   !.fresh = @ \/ ~has_classification(m),
                   !.processed_count = count_processed(r.ok, @),
                   !.non_spam_count =
                       IF r.ok /\ r.rows.classification # <<>>
                               /\ ~r.rows.classification[1].is_spam
                       THEN @ + 1 ELSE @]
             /\ last' = LastOfProcess(m, sched.classify_only, r, oc)
    /\ UNCHANGED <<emails, feedback, fn, conc, sync>>

\* lines 276-277: the loop is over, the call returns processed_count
SchedReturn ==
    /\ sched.active
    /\ sched.queue = <<>>
    /\ sched' = SchedIdle
    /\ last' = [LastOf("sched_return", 0, TRUE, NoCalls, FALSE, FALSE)
                    EXCEPT !.returned = sched.processed_count]
    /\ UNCHANGED <<emails, inf, drafts, feedback, fn, conc, sync>>

\* summarize_pending_emails lines 290-292: the emails with a classification
\* row that is not spam
non_spam_email_ids ==
    {m \in EmailIds : \E i \in 1 .. Len(inf[m].classification) :
                         ~inf[m].classification[i].is_spam}

\* lines 293 and 304-309: (is_needs, is_high, received_at) of the email's
\* last classification row, as one number that orders like the tuple
sort_key(m) ==
    LET c == inf[m].classification[Len(inf[m].classification)]
        n == Cardinality(EmailIds) + 1
    IN (IF c.action = "needs_reply" THEN 2 * n ELSE 0)
       + (IF c.priority = "high" THEN n ELSE 0) + emails[m].received_at

RECURSIVE SortByKey(_)
\* line 310: emails.sort(key=sort_key, reverse=True)
SortByKey(S) ==
    IF S = {} THEN <<>>
    ELSE LET m == CHOOSE x \in S : \A y \in S : sort_key(y) <= sort_key(x)
         IN <<m>> \o SortByKey(S \ {m})

\* lines 285-313: the non-spam emails without a summary, in the order of the
\* sort, cut to max_emails when it is set
pending_emails(max_emails) ==
    LET q == SortByKey({m \in non_spam_email_ids : ~has_summary(m)})
    IN IF limit_set(max_emails) /\ max_emails < Len(q) THEN SubSeq(q, 1, max_emails) ELSE q

\* summarize_pending_emails(db, max_emails); osf[m] is the oracle's answer to
\* the summarize call for email m
SummarizePending(max_emails, osf) ==
    /\ Idle
    /\ \E P \in {{pending_emails(max_emails)[i] : i \in 1 .. Len(pending_emails(max_emails))}} :
          /\ \A m \in EmailIds \ P : osf[m] = <<>>
          /\ inf' = [m \in EmailIds |->
                        IF m \in P /\ osf[m] # <<>>
                        THEN [inf[m] EXCEPT !.summary = Append(@, osf[m][1])]
                        ELSE inf[m]]                                   \* rollback
          /\ last' = [LastOf("summarize_pending_emails", 0, TRUE,
                             [NoCalls EXCEPT !.summarize = Cardinality(P)],
                             \E m \in P : osf[m] # <<>>, FALSE)
                          EXCEPT !.returned = Cardinality({m \in P : osf[m] # <<>>})]
    /\ UNCHANGED <<emails, drafts, feedback, sched, fn, conc, sync>>

Next ==
    \/ \E mx \in Limits, osf \in [EmailIds -> SummarizeOutcomes] : SummarizePending(mx, osf)
    \/ \E m \in EmailIds, co \in BOOLEAN, oc \in ClassifyOutcomes, os \in SummarizeOutcomes,
          od \in DraftOutcomes : ProcessEmail(m, co, oc, os, od)
    \/ \E m \in EmailIds, od \in DraftOutcomes : GenerateDrafts(m, od)
    \/ \E m \in EmailIds, is_spam \in BOOLEAN : MarkSpamFeedback(m, is_spam)
    \/ \E mx \in Limits, tg \in Limits, co \in BOOLEAN : SchedStart(mx, tg, co)
    \/ \E oc \in ClassifyOutcomes, os \in SummarizeOutcomes, od \in DraftOutcomes :
          SchedStep(oc, os, od)
    \/ SchedReturn

Spec == Init /\ [][Next]_vars

\* ------------------------------------------------ the scheduler on a backlog
\* The message of a backlog: one no rule matches, which the oracle classifies.
BatchCatalog ==
    {Msg(NoUser, Addr("test", "example.com"), {},
         Subject({"hello"}, 18, 3), Body({"hello"}, 0))}

\* the oracle's classify answers on a backlog: a failure, spam, a message to
\* read, a message to answer
BatchClassifyOutcomes ==
    {<<>>,
     <<Payload("normal", TRUE, "absent", "read_only", FALSE, "oracle")>>,
     <<Payload("normal", FALSE, "absent", "read_only", FALSE, "oracle")>>,
     <<Payload("high", FALSE, "absent", "needs_reply", FALSE, "oracle")>>}

\* orders in which n messages can have been received: the ids are those of
\* insertion, received_at is the date of the message; the messages being
\* alike, the rotations stand for every order
ReceivedOrders(n) == {[i \in 1 .. n |-> ((i + k) % n) + 1] : k \in 0 .. n - 1}

\* the mailboxes of MaxEmails stored messages, received in any order
BatchMailboxes ==
    {[i \in 1 .. MaxEmails |-> [msg |-> c[i], received_at |-> t[i], replied |-> FALSE]] :
        c \in [1 .. MaxEmails -> BatchCatalog], t \in ReceivedOrders(MaxEmails)}

InitBatch ==
    /\ emails \in BatchMailboxes
    /\ inf = [i \in EmailIds |-> NoRows]
    /\ drafts = [i \in EmailIds |-> <<>>]
    /\ feedback = [d \in Domains |-> [spam |-> 0, ham |-> 0]]
    /\ sched = SchedIdle
    /\ last = NoLast
    /\ fn = FnIdle
    /\ conc = ConcIdle
    /\ sync = SyncIdle

\* process_email(db, email) of another process_new_emails run (the thread of
\* background_fetch, with its own session), between two iterations of this run
OtherRun(m, oc, os) ==
    /\ sched.active
    /\ sched.queue # <<>>
    /\ ~has_classification(m) \/ ~has_summary(m)
    /\ \E r \in {process_email(inf[m], emails[m].msg,
                                feedback[emails[m].msg.from_addr.domain],
                                FALSE, oc, os, NoAnswer)} :
          /\ Answered(r, oc, os, NoAnswer)
          /\ r.rows # inf[m]
          /\ inf' = [inf EXCEPT ![m] = r.rows]
          /\ last' = LastOf("other_run", m, r.ok, r.calls, TRUE, FALSE)
    /\ UNCHANGED <<emails, drafts, feedback, sched, fn, conc, sync>>

NextBatch ==
    \/ \E m \in EmailIds, oc \in BatchClassifyOutcomes, os \in SummarizeOutcomes :
          OtherRun(m, oc, os)
    \/ \E mx \in Limits, tg \in Limits : SchedStart(mx, tg, FALSE)
    \/ \E oc \in BatchClassifyOutcomes, os \in SummarizeOutcomes : SchedStep(oc, os, NoAnswer)
    \/ SchedReturn

SpecBatch == InitBatch /\ [][NextBatch]_vars

\* ------------------------------------- process_new_emails runs side by side
\* Each run has its own session; it sees what the others have committed.
\* process_email is taken in the steps between its commits: the three
\* lookups, the classification, the Score Model and merge, the summary.
ConcCatalog ==
    {Msg(NoUser, Addr("test", "example.com"), {},
         Subject({"hello"}, 18, 3), Body({"hello"}, 0)),
     Msg(OwnerId, Addr("alice", "stanford.edu"), {"INBOX"},
         Subject({"meet", "?"}, 27, 2), Body({"hello"}, 0))}

InitConc ==
    /\ emails \in Mailboxes(1, ConcCatalog)
    /\ inf = [i \in EmailIds |-> NoRows]
    /\ drafts = [i \in EmailIds |-> <<>>]
    /\ feedback = [d \in Domains |-> [spam |-> 0, ham |-> 0]]
    /\ sched = SchedIdle
    /\ last = NoLast
    /\ fn = FnIdle
    /\ conc = ConcIdle
    /\ sync = SyncIdle

\* pipeline.py lines 31-36: the cached summary row, <<row>> or <<>>
existing_summary(rows) == IF rows.summary = <<>> THEN <<>> ELSE <<rows.summary[1]>>

\* process_email of run x is between its lookups and its return
Inside(x) == conc.w[x].pc \in {"classify", "ml", "summarize"}

\* process_new_emails lines 211-236: the run starts and runs its query
WStart(x) ==
    /\ conc.w[x].pc = "idle"
    /\ conc' = [conc EXCEPT !.w[x] = [@ EXCEPT !.pc = "loop", !.queue = unprocessed_emails]]
    /\ UNCHANGED <<emails, inf, drafts, feedback, sched, last, fn, sync>>

\* process_new_emails lines 238-263: the next email of the loop and the
\* double check, or the return when the loop is over
WCheck(x) ==
    /\ conc.w[x].pc = "loop"
    /\ conc' = [conc EXCEPT !.w[x] =
            IF @.queue = <<>> THEN [@ EXCEPT !.pc = "done"]
            ELSE IF has_classification(Head(@.queue)) /\ has_summary(Head(@.queue))
            THEN [@ EXCEPT !.queue = Tail(@)]                               \* continue
            ELSE [@ EXCEPT !.pc = "lookup", !.email = Head(conc.w[x].queue), !.queue = Tail(@)]]
    /\ UNCHANGED <<emails, inf, drafts, feedback, sched, last, fn, sync>>

\* process_email lines 22-80: the three lookups and the full cache hit
WLookup(x) ==
    /\ conc.w[x].pc = "lookup"
    /\ \E m \in {conc.w[x].email} :
       \E ec \in {existing_classification(inf[m])}, es \in {existing_summary(inf[m])} :
       \E hm \in {Len(inf[m].ml_spam_classification) > 0} :
          conc' = [conc EXCEPT
              !.overlap = @ \/ \E y \in Workers \ {x} : Inside(y) /\ conc.w[y].email = m,
              !.w[x] = [@ EXCEPT
                  !.has_c = ec # <<>>, !.has_s = es # <<>>, !.has_m = hm,
                  !.row = IF ec # <<>> THEN 1 ELSE 0,
                  !.c = ec,
                  !.pc = IF ec # <<>> /\ es # <<>> /\ hm THEN "loop"
                         ELSE IF ec # <<>> THEN "ml" ELSE "classify"]]
    /\ UNCHANGED <<emails, inf, drafts, feedback, sched, last, fn, sync>>

\* process_email lines 56-77: step 1 and its commit, or the exception
WClassify(x, oc) ==
    /\ conc.w[x].pc = "classify"
    /\ \E m \in {conc.w[x].email} :
       \E s1 \in {classify_with_rules_and_llm(emails[m].msg, oc)} :
          /\ s1.classify = 0 => oc = <<>>
          /\ IF s1.classification = <<>>
             THEN /\ conc' = [conc EXCEPT !.classify_calls = @ + s1.classify,
                                          !.w[x] = [@ EXCEPT !.pc = "loop"]]
                  /\ UNCHANGED inf
             ELSE /\ inf' = [inf EXCEPT ![m].classification = Append(@, s1.classification[1])]
                  /\ conc' = [conc EXCEPT
                        !.classify_calls = @ + s1.classify,
                        !.classify_ok = @ + s1.classify,
                        !.w[x] = [@ EXCEPT !.pc = "ml", !.c = s1.classification,
                                           !.row = Len(inf[m].classification) + 1]]
    /\ UNCHANGED <<emails, drafts, feedback, sched, last, fn, sync>>

\* process_email lines 82-128: the Score Model, the merge and their commit
WMl(x) ==
    /\ conc.w[x].pc = "ml"
    /\ \E m \in {conc.w[x].email}, c1 \in {conc.w[x].c[1]} :
       IF conc.w[x].has_m
       THEN /\ conc' = [conc EXCEPT !.w[x] = [@ EXCEPT
                  !.pc = "summarize",
                  !.c = IF c1.spam_type = "absent"
                        THEN <<[c1 EXCEPT !.spam_type =
                                   inf[m].ml_spam_classification[1].classification]>>
                        ELSE <<c1>>]]
            /\ UNCHANGED inf
       ELSE \E ml_result \in {ml_classify(emails[m].msg,
                                           feedback[emails[m].msg.from_addr.domain], c1)} :
            /\ inf' = [inf EXCEPT
                  ![m].ml_spam_classification = Append(@, ml_result),
                  ![m].classification[conc.w[x].row] = MergeMl(c1, ml_result)]
            /\ conc' = [conc EXCEPT !.w[x] = [@ EXCEPT
                  !.pc = "summarize", !.c = <<MergeMl(c1, ml_result)>>]]
    /\ UNCHANGED <<emails, drafts, feedback, sched, last, fn, sync>>

\* process_email lines 130-192: the spam skip, the gate, the summary and its
\* commit, or the exception
WSummarize(x, os) ==
    /\ conc.w[x].pc = "summarize"
    /\ \E m \in {conc.w[x].email}, c2 \in {conc.w[x].c[1]} :
       IF ~skip_spam(c2) /\ should_summarize(c2, FALSE, conc.w[x].has_s)
       THEN /\ inf' = IF os = <<>> THEN inf
                      ELSE [inf EXCEPT ![m].summary = Append(@, os[1])]
            /\ conc' = [conc EXCEPT
                  !.summarize_calls = @ + 1,
                  !.summarize_ok = IF os = <<>> THEN @ ELSE @ + 1,
                  !.w[x] = [@ EXCEPT !.pc = "loop"]]
       ELSE /\ os = <<>>
            /\ conc' = [conc EXCEPT !.w[x] = [@ EXCEPT !.pc = "loop"]]
            /\ UNCHANGED inf
    /\ UNCHANGED <<emails, drafts, feedback, sched, last, fn, sync>>

NextConc ==
    \E x \in Workers :
        \/ WStart(x)
        \/ WCheck(x)
        \/ WLookup(x)
        \/ \E oc \in BatchClassifyOutcomes : WClassify(x, oc)
        \/ WMl(x)
        \/ \E os \in SummarizeOutcomes : WSummarize(x, os)

SpecConc == InitConc /\ [][NextConc]_vars

\* --------------------------------------------------------- reclassification
\* app.py lines 347-361, reclassify_email: process_email(db, email) on the
\* rows the email has
ReclassifyEmail(m, oc, os, od) ==
    /\ Idle
    /\ \E r \in {process_email(inf[m], emails[m].msg,
                                feedback[emails[m].msg.from_addr.domain],
                                FALSE, oc, os, od)} :
          /\ Answered(r, oc, os, od)
          /\ inf' = [inf EXCEPT ![m] = r.rows]
          /\ drafts' = [drafts EXCEPT ![m] = @ \o r.drafts]
          /\ last' = [LastOfProcess(m, FALSE, r, oc) EXCEPT !.op = "reclassify_email"]
    /\ UNCHANGED <<emails, feedback, sched, fn, conc, sync>>

\* app.py lines 964-973: the rows of an email once its classification and
\* ml_spam_classification rows are deleted
delete_classifications(rows) ==
    [rows EXCEPT !.classification = <<>>, !.ml_spam_classification = <<>>]

\* app.py lines 950-1002, reclassify_all_emails of user u: the delete, then
\* process_email on each of the user's emails.  The record keeps the number
\* of emails processed and whether some classify call raised.
ReclassifyAll(u, ocf, osf, odf) ==
    /\ Idle
    /\ \E mine \in {{m \in EmailIds : emails[m].msg.user_id = u}} :
       \E r \in {[m \in EmailIds |->
                    process_email(delete_classifications(inf[m]), emails[m].msg,
                                  feedback[emails[m].msg.from_addr.domain],
                                  FALSE, ocf[m], osf[m], odf[m])]} :
          /\ \A m \in mine : Answered(r[m], ocf[m], osf[m], odf[m])
          /\ \A m \in EmailIds \ mine :
                ocf[m] = <<>> /\ osf[m] = <<>> /\ odf[m] = NoAnswer
          /\ inf' = [m \in EmailIds |-> IF m \in mine THEN r[m].rows ELSE inf[m]]
          /\ drafts' = [m \in EmailIds |->
                           IF m \in mine THEN drafts[m] \o r[m].drafts ELSE drafts[m]]
          /\ last' = [LastOf("reclassify_all", 0, TRUE, NoCalls, inf' # inf, drafts' # drafts)
                        EXCEPT !.returned = Cardinality(mine),
                               !.classify_failed =
                                   \E m \in mine : r[m].calls.classify = 1 /\ ocf[m] = <<>>]
    /\ UNCHANGED <<emails, feedback, sched, fn, conc, sync>>

NextReclassify ==
    \/ \E m \in EmailIds, oc \in ClassifyOutcomes, os \in SummarizeOutcomes,
          od \in DraftOutcomes : ProcessEmail(m, FALSE, oc, os, od)
    \/ \E m \in EmailIds, oc \in ClassifyOutcomes, os \in SummarizeOutcomes,
          od \in DraftOutcomes : ReclassifyEmail(m, oc, os, od)
    \/ \E ocf \in [EmailIds -> ClassifyOutcomes], osf \in [EmailIds -> SummarizeOutcomes],
          odf \in [EmailIds -> DraftOutcomes] : ReclassifyAll(OwnerId, ocf, osf, odf)

SpecReclassify == Init /\ [][NextReclassify]_vars

\* ------------------------------------------------------ replies and drafts
\* a check of sent_at that never rejects
already_sent_unchecked(draft) == FALSE

\* app.py line 326: if draft.sent_at
already_sent(draft) == draft.sent

\* app.py lines 318-345, approve_draft of the i-th Draft row of email m;
\* success is what send_reply returns.  The record keeps the status code.
ApproveDraft(m, i, success) ==
    /\ Idle
    /\ IF i > Len(drafts[m])
       THEN /\ ~success                                                  \* 404
            /\ last' = [LastOf("approve_draft", m, FALSE, NoCalls, FALSE, FALSE)
                            EXCEPT !.returned = 404]
            /\ UNCHANGED drafts
       ELSE IF already_sent(drafts[m][i])
       THEN /\ ~success                                                  \* 400
            /\ last' = [LastOf("approve_draft", m, FALSE, NoCalls, FALSE, FALSE)
                            EXCEPT !.returned = 400]
            /\ UNCHANGED drafts
       ELSE IF success
       THEN /\ drafts[m][i].sends <= MaxOptions
            /\ drafts' = [drafts EXCEPT ![m][i] =
                              [@ EXCEPT !.sent = TRUE, !.approved = TRUE, !.sends = @ + 1]]
            /\ last' = [LastOf("approve_draft", m, TRUE, NoCalls, FALSE, TRUE)
                            EXCEPT !.returned = 200]
       ELSE /\ last' = [LastOf("approve_draft", m, FALSE, NoCalls, FALSE, FALSE)
                            EXCEPT !.returned = 500]
            /\ UNCHANGED drafts
    /\ UNCHANGED <<emails, inf, feedback, sched, fn, conc, sync>>

\* app.py lines 363-416, send_email_endpoint with the draft_id of a
\* ComposedDraft of the user that is a reply to email m; success is what
\* send_email_smtp returns
SendEmail(m, success) ==
    /\ Idle
    /\ emails' = IF success THEN [emails EXCEPT ![m].replied = TRUE] ELSE emails
    /\ last' = [LastOf("send_email", m, success, NoCalls, FALSE, FALSE)
                    EXCEPT !.returned = IF success THEN 200 ELSE 500]
    /\ UNCHANGED <<inf, drafts, feedback, sched, fn, conc, sync>>

NextDraft ==
    \/ \E m \in EmailIds, oc \in ClassifyOutcomes, os \in SummarizeOutcomes,
          od \in DraftOutcomes : ProcessEmail(m, FALSE, oc, os, od)
    \/ \E m \in EmailIds, od \in DraftOutcomes : GenerateDrafts(m, od)
    \/ \E m \in EmailIds, i \in 1 .. MaxOptions + 1, success \in BOOLEAN :
          ApproveDraft(m, i, success)
    \/ \E m \in EmailIds, success \in BOOLEAN : SendEmail(m, success)

SpecDraft == Init /\ [][NextDraft]_vars

\* ------------------------------------------------- polls and their threads
\* max_results of the three fetches and the target of the first sync
FIRST_FETCH == 20
BG_FETCH == 480
REGULAR_FETCH == 50
FIRST_SYNC_TARGET == 20

\* the oracle's classify answers during a poll: a failure, a message to read
SyncClassifyOutcomes ==
    {<<>>, <<Payload("normal", FALSE, "absent", "read_only", FALSE, "oracle")>>}

\* the user whose requests are followed; the other user has synced before
Pollers == {OwnerId}

\* parse_gmail_message: message k of user u's Gmail mailbox as an Email row
SyncMsg(u, k) ==
    [msg |-> Msg(u, Addr("test", "example.com"), {"INBOX"},
                 Subject({"hello"}, 18, 3), Body({"hello"}, 0)),
     received_at |-> 2 * k + u, replied |-> FALSE, msg_id |-> <<u, k>>]

\* messages().list(maxResults): the newest max_results messages, newest first
MessageList(u, max_results) ==
    [i \in 1 .. Min(sync.remote[u], max_results) |-> sync.remote[u] + 1 - i]

\* save_email_to_db on the table tbl: a row is added unless the msg_id is stored
save_email_to_db(tbl, u, k) ==
    IF \E i \in DOMAIN tbl : tbl[i].msg_id = <<u, k>> THEN tbl
    ELSE Append(tbl, SyncMsg(u, k))

RECURSIVE SaveList(_, _, _)
\* fetch_user_emails with a callback that saves every message of the list
SaveList(tbl, u, list) ==
    IF list = <<>> THEN tbl
    ELSE SaveList(save_email_to_db(tbl, u, Head(list)), u, Tail(list))

\* the tables of a store to which n Email rows were added
Grown(table, n, empty) == table \o [i \in 1 .. n |-> empty]

\* The other user's first message is stored and has no inference row yet;
\* the owner has not synced.
InitSync ==
    /\ emails = <<SyncMsg(OtherId, 1)>>
    /\ inf = <<NoRows>>
    /\ drafts = <<<<>>>>
    /\ feedback = [d \in Domains |-> [spam |-> 0, ham |-> 0]]
    /\ sched = SchedIdle
    /\ last = NoLast
    /\ fn = FnIdle
    /\ conc = ConcIdle
    /\ sync = [SyncIdle EXCEPT !.remote = [u \in Users |-> 1]]

\* a message arrives in the user's Gmail mailbox
Arrive(u) ==
    /\ sync.remote[u] < MaxRemote
    /\ sync' = [sync EXCEPT !.remote[u] = @ + 1]
    /\ UNCHANGED <<emails, inf, drafts, feedback, sched, last, fn, conc>>

\* manual_poll lines 505-528 and 566-586: the flag is reset, the emails of
\* the user are counted, the newest messages are fetched and saved
PollBegin(u) ==
    /\ sync.fg = NoPoll
    /\ ~sched.active
    /\ \E first \in {~\E i \in EmailIds : emails[i].msg.user_id = u} :
       \E tbl \in {SaveList(emails, u,
                            MessageList(u, IF first THEN FIRST_FETCH ELSE REGULAR_FETCH))} :
          /\ emails' = tbl
          /\ inf' = Grown(inf, Len(tbl) - Len(emails), NoRows)
          /\ drafts' = Grown(drafts, Len(tbl) - Len(emails), <<>>)
          /\ sync' = [sync EXCEPT
                !.cancelled[u] = FALSE,
                !.bg[u].after_cancel = 0,
                !.fg = [user |-> u, pc |-> "fetched", first |-> first,
                        new_email_count |-> Len(tbl) - Len(emails)]]
    /\ UNCHANGED <<feedback, sched, last, fn, conc>>

\* manual_poll lines 530 and 594-597: the call of process_new_emails, or the
\* return of a regular sync that found no new message
PollProcess ==
    /\ sync.fg.pc = "fetched"
    /\ IF sync.fg.first \/ sync.fg.new_email_count > 0
       THEN /\ sched' = NewRun(IF sync.fg.first THEN NoLimit ELSE sync.fg.new_email_count,
                               IF sync.fg.first THEN FIRST_SYNC_TARGET ELSE NoLimit, FALSE)
            /\ sync' = [sync EXCEPT !.fg.pc = "processing"]
       ELSE /\ sync' = [sync EXCEPT !.fg = NoPoll]
            /\ UNCHANGED sched
    /\ last' = LastOf("manual_poll", 0, TRUE, NoCalls, FALSE, FALSE)
    /\ UNCHANGED <<emails, inf, drafts, feedback, fn, conc>>

\* manual_poll lines 530-573 and 597-606: process_new_emails returns; a first
\* sync starts the background_fetch thread; the request returns
PollReturn ==
    /\ sync.fg.pc = "processing"
    /\ sched.active
    /\ sched.queue = <<>>
    /\ sched' = SchedIdle
    /\ last' = [LastOf("sched_return", 0, TRUE, NoCalls, FALSE, FALSE)
                    EXCEPT !.returned = sched.processed_count]
    /\ sync' = [sync EXCEPT
          !.fg = NoPoll,
          !.bg[sync.fg.user] = IF sync.fg.first THEN [BgIdle EXCEPT !.pc = "start"] ELSE @]
    /\ UNCHANGED <<emails, inf, drafts, feedback, fn, conc>>

\* the thread of user u is between its start and its return
Running(u) == sync.bg[u].pc \in {"start", "fetch", "process"}

\* cancel_sync by user u
CancelSync(u) ==
    /\ sync' = [sync EXCEPT !.cancelled[u] = TRUE,
                            !.bg[u].cancel_requested = @ \/ Running(u)]
    /\ sync' # sync
    /\ UNCHANGED <<emails, inf, drafts, feedback, sched, last, fn, conc>>

\* background_fetch lines 536-548: the first check of the flag and the list
\* of the messages to fetch
BgStart(u) ==
    /\ sync.bg[u].pc = "start"
    /\ sync' = [sync EXCEPT !.bg[u] =
            IF sync.cancelled[u] THEN [@ EXCEPT !.pc = "done"]
            ELSE [@ EXCEPT !.pc = "fetch", !.list = MessageList(u, BG_FETCH)]]
    /\ UNCHANGED <<emails, inf, drafts, feedback, sched, last, fn, conc>>

\* fetch_user_emails lines 39-57 with bg_save_callback (lines 544-547): one
\* message is fetched, and saved unless the flag is set
BgFetch(u) ==
    /\ sync.bg[u].pc = "fetch"
    /\ sync.bg[u].list # <<>>
    /\ \E tbl \in {IF sync.cancelled[u] THEN emails
                    ELSE save_email_to_db(emails, u, Head(sync.bg[u].list))} :
          /\ emails' = tbl
          /\ inf' = Grown(inf, Len(tbl) - Len(emails), NoRows)
          /\ drafts' = Grown(drafts, Len(tbl) - Len(emails), <<>>)
    /\ sync' = [sync EXCEPT !.bg[u].list = Tail(@)]
    /\ UNCHANGED <<feedback, sched, last, fn, conc>>

\* background_fetch lines 549-556 and process_new_emails lines 211-236: the
\* fetch is over, the flag is checked, process_new_emails runs its query
BgFetched(u) ==
    /\ sync.bg[u].pc = "fetch"
    /\ sync.bg[u].list = <<>>
    /\ sync' = [sync EXCEPT !.bg[u] =
            IF sync.cancelled[u] THEN [@ EXCEPT !.pc = "done"]
            ELSE [@ EXCEPT !.pc = "process", !.queue = unprocessed_emails]]
    /\ UNCHANGED <<emails, inf, drafts, feedback, sched, last, fn, conc>>

\* process_new_emails(bg_db) lines 238-277 in the thread: one iteration of
\* the loop, or its end and the return of the thread
BgStep(u, oc, os) ==
    /\ sync.bg[u].pc = "process"
    /\ IF sync.bg[u].queue = <<>>
       THEN /\ oc = <<>> /\ os = <<>>
            /\ sync' = [sync EXCEPT !.bg[u].pc = "done"]
            /\ UNCHANGED <<inf, last>>
       ELSE \E m \in {Head(sync.bg[u].queue)} :
            /\ IF has_classification(m) /\ has_summary(m)
               THEN /\ oc = <<>> /\ os = <<>>                          \* continue
                    /\ sync' = [sync EXCEPT !.bg[u].queue = Tail(@)]
                    /\ last' = LastOf("bg_skip", m, TRUE, NoCalls, FALSE, FALSE)
                    /\ UNCHANGED inf
               ELSE \E r \in {process_email(inf[m], emails[m].msg,
                                            feedback[emails[m].msg.from_addr.domain],
                                            FALSE, oc, os, NoAnswer)} :
                    /\ Answered(r, oc, os, NoAnswer)
                    /\ inf' = [inf EXCEPT ![m] = r.rows]
                    /\ sync' = [sync EXCEPT
                          !.bg[u].queue = Tail(@),
                          !.bg[u].after_cancel = IF sync.cancelled[u] THEN @ + 1 ELSE @]
                    /\ last' = [LastOfProcess(m, FALSE, r, oc) EXCEPT !.op = "bg_process_email"]
    /\ UNCHANGED <<emails, drafts, feedback, sched, fn, conc>>

NextSync ==
    \/ \E u \in Pollers : Arrive(u)
    \/ \E u \in Pollers : PollBegin(u)
    \/ PollProcess
    \/ \E oc \in SyncClassifyOutcomes, os \in SummarizeOutcomes : SchedStep(oc, os, NoAnswer)
    \/ PollReturn
    \/ \E u \in Pollers : CancelSync(u)
    \/ \E u \in Pollers : BgStart(u)
    \/ \E u \in Pollers : BgFetch(u)
    \/ \E u \in Pollers : BgFetched(u)
    \/ \E u \in Pollers, oc \in SyncClassifyOutcomes, os \in SummarizeOutcomes : BgStep(u, oc, os)

SpecSync == InitSync /\ [][NextSync]_vars

\* ------------------------------------------- the pure functions on their own
\* SpecFn draws one input of one function and applies the function to it.
RuleInputs ==
    {[f |-> "rules", subject |-> Subject(sp, 20, 1), body |-> Body(bp, n),
      from_addr |-> Addr(l, d), done |-> FALSE, out |-> <<>>] :
        sp \in SUBSET {"?", "refund", "today only"},
        bp \in SUBSET {"unsubscribe", "meet", "shipped", "hello"},
        n \in {0, LONG_THREAD_ADDRESSES + 1},
        l \in {"alice", "no-reply", "deals"},
        d \in {"stanford.edu", "amazon.com", "example.com"}}

FeatureVectors ==
    [from_domain : {"", "example.com"}, subject_length : {10, 30}, has_links : BOOLEAN,
     spam_keyword_count : 0 .. 2, money_request_count : 0 .. MaxMoney,
     suspicious_pattern_count : 0 .. 1, caps_ratio : {0, 2500, SCALE},
     is_marketing_domain : BOOLEAN]

FeedbackCounts == [spam : 0 .. MaxFeedback, ham : 0 .. MaxFeedback]

ScoreInputs ==
    {[f |-> "score", features |-> fv, fb |-> fb, done |-> FALSE, out |-> 0, sum |-> 0,
      inc |-> FALSE, prev_out |-> 0, prev_sum |-> 0] :
        fv \in FeatureVectors, fb \in FeedbackCounts}

FormatInputs ==
    {[f |-> "format", email |-> [replied |-> r], classification |-> c,
      done |-> FALSE, out |-> [needs_reply |-> FALSE]] :
        r \in BOOLEAN,
        c \in {<<>>} \cup {<<Payload(p, sp, "absent", a, FALSE, "any")>> :
                               p \in Priorities, sp \in BOOLEAN, a \in Actions}}

\* base scores around the thresholds, before the boost
BaseScores ==
    {0, T_CONFIDENT_HAM - 1, T_CONFIDENT_HAM, T_POTENTIAL - 1, T_POTENTIAL,
     T_SPAM - 1, T_SPAM, SCALE}
    \cup {T_POTENTIAL - W_LLM_BOOST + d : d \in {-1, 0}}
    \cup {T_SPAM - W_LLM_BOOST + d : d \in {-1, 0}}

BucketInputs ==
    {[f |-> "bucket", base |-> b, llm_is_spam |-> sp, done |-> FALSE, score |-> 0,
      out |-> [classification |-> "none", confidence |-> "none"]] :
        b \in BaseScores, sp \in BOOLEAN}

\* the domains SpamFeedback rows are recorded for
FbDomains == {"example.com", "other.org"}

\* the SpamFeedback table: for each user and domain, how many rows say spam
\* and how many say not spam
FeedbackTables == [Users -> [FbDomains -> FeedbackCounts]]

NoFeedback == [spam |-> 0, ham |-> 0]

\* a query that filters SpamFeedback by the domain only
feedback_rows_any_user(table, user_id, domain) ==
    IF domain \in FbDomains
    THEN [spam |-> table[OwnerId][domain].spam + table[OtherId][domain].spam,
          ham |-> table[OwnerId][domain].ham + table[OtherId][domain].ham]
    ELSE NoFeedback

\* calculate_spam_score lines 131-135: the counts of the rows with
\* SpamFeedback.user_id == user_id and SpamFeedback.from_domain == domain
feedback_rows(table, user_id, domain) ==
    IF user_id \in Users /\ domain \in FbDomains THEN table[user_id][domain]
    ELSE NoFeedback

\* the features of a message from the domain with three spam keywords
FbFeatures(domain) ==
    [from_domain |-> domain, subject_length |-> 30, has_links |-> FALSE,
     spam_keyword_count |-> 3, money_request_count |-> 0,
     suspicious_pattern_count |-> 0, caps_ratio |-> 0, is_marketing_domain |-> FALSE]

FeedbackInputs ==
    {[f |-> "feedback", table |-> t, user_id |-> u, domain |-> d, done |-> FALSE,
      out |-> 0, other |-> FALSE, prev_out |-> 0] :
        t \in FeedbackTables, u \in Users, d \in FbDomains \cup {""}}

InitFn ==
    /\ emails = <<>>
    /\ inf = <<>>
    /\ drafts = <<>>
    /\ feedback = [d \in Domains |-> [spam |-> 0, ham |-> 0]]
    /\ sched = SchedIdle
    /\ last = NoLast
    /\ fn \in RuleInputs \cup ScoreInputs \cup FormatInputs \cup BucketInputs
              \cup FeedbackInputs
    /\ conc = ConcIdle
    /\ sync = SyncIdle

ApplyRules ==
    /\ fn.f = "rules" /\ ~fn.done
    /\ fn' = [fn EXCEPT !.done = TRUE,
                        !.out = apply_heuristic_rules(fn.subject, fn.body, fn.from_addr)]
    /\ UNCHANGED <<emails, inf, drafts, feedback, sched, last, conc, sync>>

ApplyScore ==
    /\ fn.f = "score" /\ ~fn.done
    /\ fn' = [fn EXCEPT !.done = TRUE,
                        !.out = calculate_spam_score(fn.features, fn.fb),
                        !.sum = UnclampedScore(fn.features, fn.fb)]
    /\ UNCHANGED <<emails, inf, drafts, feedback, sched, last, conc, sync>>

\* the same message with one more money-request keyword, scored again
IncMoney ==
    /\ fn.f = "score" /\ fn.done /\ ~fn.inc
    /\ LET fv == [fn.features EXCEPT !.money_request_count = @ + 1]
       IN fn' = [fn EXCEPT !.features = fv, !.inc = TRUE,
                           !.prev_out = fn.out, !.prev_sum = fn.sum,
                           !.out = calculate_spam_score(fv, fn.fb),
                           !.sum = UnclampedScore(fv, fn.fb)]
    /\ UNCHANGED <<emails, inf, drafts, feedback, sched, last, conc, sync>>

ApplyFormat ==
    /\ fn.f = "format" /\ ~fn.done
    /\ fn' = [fn EXCEPT !.done = TRUE,
                        !.out = format_email_for_display(fn.email, fn.classification)]
    /\ UNCHANGED <<emails, inf, drafts, feedback, sched, last, conc, sync>>

\* lines 164-178 of classify on a base score
ApplyBucket ==
    /\ fn.f = "bucket" /\ ~fn.done
    /\ fn' = [fn EXCEPT !.done = TRUE,
                        !.score = final_score(fn.base, fn.llm_is_spam),
                        !.out = BucketOf(final_score(fn.base, fn.llm_is_spam))]
    /\ UNCHANGED <<emails, inf, drafts, feedback, sched, last, conc, sync>>

\* calculate_spam_score(features, db, user_id) on the SpamFeedback table
ApplyFeedback ==
    /\ fn.f = "feedback" /\ ~fn.done
    /\ fn' = [fn EXCEPT !.done = TRUE,
                        !.out = calculate_spam_score(FbFeatures(fn.domain),
                                    feedback_rows(fn.table, fn.user_id, fn.domain))]
    /\ UNCHANGED <<emails, inf, drafts, feedback, sched, last, conc, sync>>

\* record_feedback lines 188-200 by another user or for another domain, and
\* the same message scored again
RecordOther(u, d, is_spam) ==
    /\ fn.f = "feedback" /\ fn.done /\ ~fn.other
    /\ u # fn.user_id \/ d # fn.domain
    /\ fn.table[u][d].spam + fn.table[u][d].ham < MaxFeedback + 1
    /\ \E t \in {[fn.table EXCEPT ![u][d] = IF is_spam THEN [@ EXCEPT !.spam = @ + 1]
                                            ELSE [@ EXCEPT !.ham = @ + 1]]} :
          fn' = [fn EXCEPT !.table = t, !.other = TRUE, !.prev_out = fn.out,
                           !.out = calculate_spam_score(FbFeatures(fn.domain),
                                       feedback_rows(t, fn.user_id, fn.domain))]
    /\ UNCHANGED <<emails, inf, drafts, feedback, sched, last, conc, sync>>

NextFn ==
    \/ ApplyRules \/ ApplyScore \/ IncMoney \/ ApplyFormat \/ ApplyBucket
    \/ ApplyFeedback
    \/ \E u \in Users, d \in FbDomains, is_spam \in BOOLEAN : RecordOther(u, d, is_spam)

SpecFn == InitFn /\ [][NextFn]_vars

\* ------------------------------------------------------------- properties
\* the state right after a process_email call on email last.email
AfterProcess == last.op = "process_email"

\* the first classification row of the email of the last operation
Persisted == inf[last.email].classification[1]

JustProcessed == AfterProcess /\ last.ok /\ inf[last.email].classification # <<>>

C2_SentShortCircuit ==
    LET e == emails[last.email].msg
    IN (JustProcessed /\ last.stage1_spam # "none"
            /\ e.user_id # NoUser /\ is_sent_by_user(e, e.user_id)) =>
        /\ Persisted.priority = "low" /\ Persisted.action = "archive"
        /\ ~Persisted.is_spam /\ Persisted.is_sent
        /\ last.calls.rules = 0 /\ last.calls.classify = 0 /\ last.calls.ml = 0

\* C3: a process_email call that ends with is_spam = true makes no summarize
\* call and adds no summary row.
C3_SpamSuppressesSummary ==
    (AfterProcess /\ last.final_spam = "true") =>
        /\ last.calls.summarize = 0
        /\ ~last.new_summary

C3_Witness ==
    /\ AfterProcess /\ last.final_spam = "true" /\ last.stage1_spam # "none"
    /\ ~last.classify_only
    /\ Persisted.action = "needs_reply" /\ Persisted.priority = "high"

C9_MergeInvariant ==
    LET ml == inf[last.email].ml_spam_classification[1]
    IN (JustProcessed /\ last.bucket # "none") =>
        /\ last.bucket = "spam" => (Persisted.is_spam /\ Persisted.spam_type = "spam")
        /\ last.bucket = "potential_spam" =>
                (~Persisted.is_spam /\ Persisted.spam_type = "potential_spam")
        /\ last.bucket = "not_spam" =>
                (~Persisted.is_spam /\ Persisted.spam_type = "not_spam")
        /\ Persisted.ml_spam_score = ml.ml_score
        /\ Persisted.ml_confidence = ml.confidence
        /\ Persisted.is_spam => Persisted.spam_type = "spam"

\* C7: the merged view of a replied message never has needs_reply, and
\* needs_reply holds only for action = needs_reply on an unreplied message.
C7_NeedsReplyConsistent ==
    (fn.f = "format" /\ fn.done) =>
        /\ fn.email.replied => ~fn.out.needs_reply
        /\ fn.out.needs_reply =>
              /\ fn.classification # <<>>
              /\ fn.classification[1].action = "needs_reply"
              /\ ~fn.email.replied

C7_Witness ==
    /\ fn.f = "format" /\ fn.done /\ fn.email.replied
    /\ fn.classification # <<>> /\ fn.classification[1].action = "needs_reply"

HighNeedsReply(out) ==
    /\ out # NoRule
    /\ out[1].priority = "high" /\ out[1].action = "needs_reply" /\ ~out[1].is_spam

BodyHasSpamKeyword(body) == \E kw \in SPAM_KEYWORDS : Contains(body.phrases, kw)

\* C8 as claimed: a sender at a high-priority domain with a spam keyword in
\* the body gets the high / needs_reply / not-spam result whatever else the
\* sender address, subject and body hold.
C8_PrecedenceAnySender ==
    (fn.f = "rules" /\ fn.done /\ fn.from_addr.domain \in HIGH_PRIORITY_DOMAINS
            /\ BodyHasSpamKeyword(fn.body)) =>
        HighNeedsReply(fn.out)

\* C8 amended: the same, for a sender address that matches no promotional
\* sender pattern and no retail/marketing domain.
C8_PrecedenceFromRule3 ==
    (fn.f = "rules" /\ fn.done /\ fn.from_addr.domain \in HIGH_PRIORITY_DOMAINS
            /\ BodyHasSpamKeyword(fn.body)
            /\ fn.from_addr.local \notin PROMO_SENDER_PATTERNS
            /\ fn.from_addr.domain \notin RETAIL_MARKETING_DOMAINS) =>
        (HighNeedsReply(fn.out) /\ fn.out[1].reasons = "hp_domain")

C8_Witness ==
    /\ fn.f = "rules" /\ fn.done /\ fn.from_addr = Addr("alice", "stanford.edu")
    /\ BodyHasSpamKeyword(fn.body) /\ HighNeedsReply(fn.out)

\* C10: one more money-request keyword never lowers the score, raises the
\* sum before clamping by exactly 0.35, and the score stays within [0, 1].
C10_ScoreMonotone ==
    (fn.f = "score" /\ fn.done) =>
        /\ 0 <= fn.out /\ fn.out <= SCALE
        /\ fn.out = Clamp(fn.sum)
        /\ fn.inc =>
              /\ fn.out >= fn.prev_out
              /\ fn.sum = fn.prev_sum + W_MONEY
              /\ fn.out - fn.prev_out <= W_MONEY

C10_Witness ==
    /\ fn.f = "score" /\ fn.inc /\ fn.features.money_request_count = 2
    /\ fn.out > fn.prev_out /\ fn.out - fn.prev_out < W_MONEY

MeetingRequest ==
    Msg(OwnerId, Addr("alice", "stanford.edu"), {"INBOX"},
        Subject({"meet", "?"}, 27, 2), Body({"hello"}, 0))

\* C12: a successful process_email call (not classify-only) that ends with a
\* non-spam classification of action = needs_reply or priority = high leaves
\* exactly one summary row, and made one summarize call exactly when the row
\* is new; the meeting request ends high / needs_reply / not spam with a
\* summary row.
C12_GatedSummarization ==
    /\ (JustProcessed /\ ~last.classify_only /\ last.final_spam = "false"
            /\ (Persisted.action = "needs_reply" \/ Persisted.priority = "high")) =>
          /\ Len(inf[last.email].summary) = 1
          /\ last.calls.summarize = (IF last.new_summary THEN 1 ELSE 0)
    /\ (JustProcessed /\ ~last.classify_only /\ last.stage1_spam # "none"
            /\ emails[last.email].msg = MeetingRequest) =>
          /\ Persisted.priority = "high" /\ Persisted.action = "needs_reply"
          /\ ~Persisted.is_spam
          /\ last.calls.classify = 0
          /\ last.new_summary

C12_Witness ==
    /\ JustProcessed /\ ~last.classify_only /\ last.final_spam = "false"
    /\ Persisted.action = "read_only" /\ Persisted.priority = "high"
    /\ last.new_summary /\ last.calls.summarize = 1

\* C13: while a process_new_emails call runs with max_emails supplied, its
\* count of processed messages never exceeds max_emails, and with
\* target_non_spam supplied its non-spam count never exceeds target_non_spam;
\* no message is passed to process_email once a supplied limit is reached.
C13_StopRules ==
    sched.active =>
        /\ sched.max_emails # NoLimit => sched.processed_count <= sched.max_emails
        /\ sched.target_non_spam # NoLimit =>
              sched.non_spam_count <= sched.target_non_spam

\* C14: a process_email call whose oracle classify call raises returns
\* failure, changes no row, leaves the message without classification,
\* ml_spam_classification and summary rows, and the message is in the
\* selection of the next process_new_emails run.
C14_OracleFailure ==
    (AfterProcess /\ last.classify_failed) =>
        /\ ~last.ok
        /\ ~last.rows_changed
        /\ inf[last.email] = NoRows
        /\ last.calls.ml = 0 /\ last.calls.summarize = 0
        /\ \E i \in 1 .. Len(unprocessed_emails) : unprocessed_emails[i] = last.email

C14_Witness ==
    /\ AfterProcess /\ last.classify_failed /\ ~last.ok
    /\ sched.active /\ sched.passed = <<last.email>> /\ sched.processed_count = 0

\* C15: in every state, also of runs that interleave, there is at most one
\* inference row per (message, kind), and the oracle has answered at most
\* one classify call and at most one summarize call (a call that raised and
\* was retried by a later run is not counted).
C15_AtMostOnce ==
    /\ \A m \in EmailIds :
          /\ Len(inf[m].classification) <= 1
          /\ Len(inf[m].ml_spam_classification) <= 1
          /\ Len(inf[m].summary) <= 1
    /\ conc.classify_ok <= 1
    /\ conc.summarize_ok <= 1

\* the email has a classification row with action needs_reply or priority high
Gated(m) ==
    \E i \in 1 .. Len(inf[m].classification) :
        \/ inf[m].classification[i].action = "needs_reply"
        \/ inf[m].classification[i].priority = "high"

\* C16: every summary row belongs to an email classified needs_reply or
\* high, and no operation has called the oracle's summarize for an email
\* that is neither.
C16_SummariesOnlyGated ==
    /\ \A m \in EmailIds : has_summary(m) => Gated(m)
    /\ last.calls.summarize > 0 => \E m \in EmailIds : Gated(m)

\* C17: for a sender at a retail/marketing domain, apply_heuristic_rules
\* returns not spam / read_only when the subject or body holds a
\* transactional keyword, also for a sender address that matches a
\* promotional sender pattern, and spam / archive when they hold none.
C17_TransactionalOverride ==
    (fn.f = "rules" /\ fn.done /\ fn.from_addr.domain \in RETAIL_MARKETING_DOMAINS) =>
        /\ fn.out # <<>>
        /\ IF \E kw \in transactional_keywords :
                  Contains(fn.subject.phrases, kw) \/ Contains(fn.body.phrases, kw)
           THEN ~fn.out[1].is_spam /\ fn.out[1].action = "read_only"
           ELSE fn.out[1].is_spam /\ fn.out[1].action = "archive"

\* the email lacks a classification row or a summary row
Unprocessed(m) == ~has_classification(m) \/ ~has_summary(m)

\* the emails passed to process_email so far in the run
Passed == {sched.passed[i] : i \in 1 .. Len(sched.passed)}

\* the loop of the run is over and no limit stopped it
RanToEnd == sched.active /\ sched.queue = <<>> /\ ~sched.stopped

\* C18: a run passes an email to process_email only if the email lacks a
\* classification row or a summary row when it is visited; when the loop
\* ends without an early stop, every email that lacked one at the start of
\* the run has been passed exactly once, or had both rows when visited.
C18_Selection ==
    [][/\ Len(sched'.passed) > Len(sched.passed) => Unprocessed(Head(sched.queue))
       /\ RanToEnd' =>
             /\ \A i, j \in 1 .. Len(sched'.passed) :
                    i # j => sched'.passed[i] # sched'.passed[j]
             /\ Passed' \subseteq sched'.backlog
             /\ \A m \in sched'.backlog : m \in Passed' \/ ~Unprocessed(m)']_vars

\* a run ended without a stop; it passed an email to process_email and
\* skipped one that another run had completed before its visit
C18_Witness ==
    /\ RanToEnd
    /\ Passed # {}
    /\ \E m \in sched.backlog : m \notin Passed

\* the emails that lacked a row at the start of the run, newest first
SortedBacklog == SortDesc(sched.backlog)

\* C19: the emails a run passes to process_email are in descending order of
\* received_at; at every moment of the run, under a stop as well, every
\* email of the backlog that has not been passed and still lacks a row is no
\* newer than any email passed: the emails passed are a prefix of the sorted
\* backlog, less the emails another run completed.
C19_Ordering ==
    sched.active =>
        /\ \A i, j \in 1 .. Len(sched.passed) :
              i < j => emails[sched.passed[i]].received_at >= emails[sched.passed[j]].received_at
        /\ \A m \in sched.backlog \ Passed :
              Unprocessed(m) =>
                  \A p \in Passed : emails[p].received_at >= emails[m].received_at

\* a run a limit stopped after it passed the newest email of a backlog of two
\* or more and before it passed the oldest
C19_Witness ==
    /\ sched.active /\ sched.stopped
    /\ Len(sched.passed) >= 1
    /\ sched.passed = SubSeq(SortedBacklog, 1, Len(sched.passed))
    /\ Len(SortedBacklog) > Len(sched.passed)
    /\ sched.passed[1] # 1

\* C20: when process_email fails for an email during a run, the run goes on
\* with the next candidate, the processed count is not raised, the rows of
\* the other emails are left as they were, and the email still lacks a row,
\* so that the next run selects it; the run returns the processed count.
C20_FailureIsolation ==
    [][/\ (sched.active /\ last'.op = "process_email" /\ ~last'.ok) =>
             /\ sched'.active
             /\ sched'.queue = Tail(sched.queue)
             /\ sched'.processed_count = sched.processed_count
             /\ \A m \in EmailIds :
                   IF m = last'.email THEN Unprocessed(m)' ELSE inf'[m] = inf[m]
       /\ (sched.active /\ ~sched'.active) => last'.returned = sched.processed_count
       /\ sched'.processed_count <= Len(sched'.passed)]_vars

\* a run in which process_email failed for the first email and succeeded for
\* the second
C20_Witness ==
    /\ sched.active
    /\ Len(sched.passed) = 2
    /\ sched.processed_count = 1
    /\ last.op = "process_email" /\ last.ok
    /\ Unprocessed(sched.passed[1])

\* C29: when a run without limits in which every process_email call
\* succeeded returns, no email lacks a classification row or a summary row,
\* so that the run that follows selects no email and returns 0.
C29_BacklogDrains ==
    [][(/\ sched.active /\ ~sched'.active
        /\ sched.max_emails = NoLimit /\ sched.target_non_spam = NoLimit
        /\ ~sched.classify_only
        /\ sched.processed_count = Len(sched.passed)) =>
            \A m \in EmailIds : ~Unprocessed(m)']_vars

\* C28: a run that stops on max_emails >= 1, every process_email call of
\* which succeeded, has not spent the whole of its budget on emails that
\* already had a classification row while an email without one remains.
C28_NoStarvation ==
    (/\ sched.active /\ sched.stopped
     /\ sched.max_emails >= 1 /\ sched.target_non_spam = NoLimit
     /\ sched.processed_count = Len(sched.passed)
     /\ \E m \in EmailIds : ~has_classification(m)) =>
        sched.fresh

\* C21: while the user's flag is set, the user's thread stores no fetched
\* message, and it starts process_email at most once under a flag that was
\* set and not reset (the call that was in progress when the flag was set).
C21_CooperativeCancel ==
    [][\A u \in Users :
          /\ (sync.cancelled[u] /\ sync.bg[u].pc = "fetch"
                  /\ sync'.bg[u].list # sync.bg[u].list) => emails' = emails
          /\ sync'.bg[u].after_cancel <= 1]_vars

\* C26: once cancel_sync was called while the user's thread ran, the thread
\* finds the flag set for as long as it runs.
C26_StickyCancel ==
    \A u \in Users : (sync.bg[u].cancel_requested /\ Running(u)) => sync.cancelled[u]

\* C27: the process_new_emails call of a user's poll and the one of the
\* user's thread pass to process_email only emails of that user (so that
\* the rows and the unprocessed emails of another user play no part in them).
C27_PerUserScope ==
    [][/\ Len(sched'.passed) > Len(sched.passed) =>
             emails[Head(sched.queue)].msg.user_id = sync.fg.user
       /\ \A u \in Users :
             (sync.bg[u].pc = "process" /\ sync'.bg[u].queue # sync.bg[u].queue
                  /\ last'.op = "bg_process_email") =>
                 emails[last'.email].msg.user_id = u]_vars

\* pipeline.py lines 476-481 of get_email_with_inferences: the classification
\* the merged view shows, the row with the latest created_at, <<row>> or <<>>
current_classification(rows) ==
    IF rows.classification = <<>> THEN <<>>
    ELSE <<rows.classification[Len(rows.classification)]>>

\* C22: once two runs whose process_email calls on a message overlapped have
\* both returned, the classification a later process_email call reuses (its
\* cache lookup) and the one the merged view shows (the most recent row) are
\* the same payload.
C22_DuplicateRunsConverge ==
    (conc.overlap /\ \A x \in Workers : conc.w[x].pc = "done") =>
        \A m \in EmailIds :
            existing_classification(inf[m]) = current_classification(inf[m])

\* C23: an explicit reclassification of a message that has a classification
\* (reclassify_email, reclassify_all_emails) deletes the message's
\* classification and ml_spam_classification rows first, so the
\* classification is computed again (the Score Model runs again, unless the
\* oracle's classify call raised) and not served from the cache; after
\* reclassify_all_emails no email of the user keeps an older row.
C23_ReclassifyRecomputes ==
    [][/\ (last'.op = "reclassify_email" /\ has_classification(last'.email)) =>
              (last'.calls.ml = 1 \/ last'.classify_failed)
       /\ last'.op = "reclassify_all" =>
              \A m \in EmailIds : emails[m].msg.user_id = OwnerId =>
                  /\ Len(inf'[m].classification) <= 1
                  /\ Len(inf'[m].ml_spam_classification) <= 1
                  /\ inf'[m].classification = <<>> => last'.classify_failed]_vars

\* C24: the score of a message of user U from domain D is the score without
\* feedback plus 0.30 if U's spam records for D strictly outnumber U's
\* not-spam records for D, minus 0.30 if the not-spam records strictly
\* outnumber the spam records, and plus nothing on a tie, with no record, or
\* when the domain is empty; a record by another user or for another domain
\* leaves the score as it was.
C24_FeedbackAdjustment ==
    (fn.f = "feedback" /\ fn.done) =>
        LET mine == IF fn.domain = "" THEN NoFeedback ELSE fn.table[fn.user_id][fn.domain]
            term == IF mine.spam > mine.ham THEN W_FEEDBACK
                    ELSE IF mine.ham > mine.spam THEN 0 - W_FEEDBACK
                    ELSE 0
        IN /\ fn.out = calculate_spam_score(FbFeatures(fn.domain), NoFeedback) + term
           /\ fn.other => fn.out = fn.prev_out

\* U has one spam record for D, which raises the score by 0.30, and a
\* not-spam record of the other user for D has left it there
C24_Witness ==
    /\ fn.f = "feedback" /\ fn.done /\ fn.other
    /\ fn.domain = "example.com" /\ fn.user_id = OwnerId
    /\ fn.table[OwnerId]["example.com"] = [spam |-> 1, ham |-> 0]
    /\ fn.table[OtherId]["example.com"].ham > fn.table[OtherId]["example.com"].spam
    /\ fn.out = calculate_spam_score(FbFeatures(fn.domain), NoFeedback) + W_FEEDBACK

\* C25: a Draft row has approved_at and sent_at both null or both set, and
\* they are set in one step by an approve request whose send succeeded; a
\* request whose send fails or that is rejected changes no Draft row; a row
\* that is sent never changes again, a request for an email whose drafts are
\* all sent is answered with an error, and no draft is sent more than once.
C25_DraftLifecycle ==
    [][/\ \A m \in EmailIds : \A i \in 1 .. Len(drafts[m]) :
             /\ drafts'[m][i].approved = drafts'[m][i].sent
             /\ drafts'[m][i].sent = (drafts'[m][i].sends = 1)
             /\ drafts'[m][i].sends <= 1
             /\ drafts[m][i].sent => drafts'[m][i] = drafts[m][i]
             /\ drafts'[m][i] # drafts[m][i] =>
                    /\ last'.op = "approve_draft" /\ last'.email = m
                    /\ last'.returned = 200
       /\ (last'.op = "approve_draft" /\ last'.returned # 200) => drafts' = drafts
       /\ (/\ last'.op = "approve_draft"
           /\ drafts[last'.email] # <<>>
           /\ \A i \in 1 .. Len(drafts[last'.email]) : drafts[last'.email][i].sent) =>
              (last'.returned \in {400, 404} /\ drafts' = drafts)]_vars

\* a draft was approved and sent, and a further approve request for it has
\* just been rejected
C25_Witness ==
    /\ last.op = "approve_draft" /\ last.returned = 400
    /\ \E i \in 1 .. Len(drafts[last.email]) :
          drafts[last.email][i].sent /\ drafts[last.email][i].approved
              /\ drafts[last.email][i].sends = 1

\* C30: once a generated draft of a message has been approved and sent, the
\* message's replied_at is set and the merged view of the message has
\* needs_reply false.
C30_ReplyClearsNeedsReply ==
    \A m \in EmailIds :
        (\E i \in 1 .. Len(drafts[m]) : drafts[m][i].sent) =>
            /\ emails[m].replied
            /\ ~format_email_for_display(emails[m],
                                         current_classification(inf[m])).needs_reply

====
